---- MODULE Spec2Model ----
(***************************************************************************)
(* A model of the reactive cell engine of src/library/classes.js: source   *)
(* cells, derived cells, per-cell effects, global effects and batching.    *)
(* Every public call is one action; the synchronous cascade it starts      *)
(* (effects, dependents, global effects) is computed inside the action by  *)
(* the recursive operators below, which follow the code loop by loop.      *)
(***************************************************************************)
EXTENDS Integers, Sequences, FiniteSets, TLC

(***************************************************************************)
(* Bounds of the model.                                                    *)
(***************************************************************************)
MaxVal == 2
MaxEffects == 3
MaxHooks == 1
MaxBatched == 4
MaxNesting == 2

(***************************************************************************)
(* The cells of the modelled program.                                      *)
(*   a   Cell.source(0)                                                    *)
(*   b   Cell.source(0)                                                    *)
(*   e   Cell.source(0, { equals: (x, y) => x % 2 === y % 2 })             *)
(*   im  Cell.source(0, { immutable: true })                               *)
(*   o   Cell.source({ p: 0, a: { b: 0 } })                                *)
(*   io  Cell.source({ p: 0, a: { b: 0 } }, { immutable: true })           *)
(*   d1  Cell.derived(() => a.value + e.value)                             *)
(*   d2  Cell.derived(() => a.value === 0 ? im.value : b.value)            *)
(*   d3  Cell.derived(() => d1.value + d2.value)                           *)
(*   d4  Cell.derived(() => o.value.a.b)                                   *)
(*   d5  Cell.derived(() => io.value.p)                                    *)
(*   d6  Cell.derived(() => { if (b.value === 1) throw new Error('odd');   *)
(*                            return b.value; })                           *)
(* and the callback                                                        *)
(*   r   (v) => { if (b.value === 0) Cell.batch(() => { b.value = 1; }); } *)
(***************************************************************************)
NumSources == {"a", "b", "e", "im"}
ObjSources == {"o", "io"}
Sources == NumSources \cup ObjSources
Deriveds == {"d1", "d2", "d3", "d4", "d5", "d6"}
Cells == Sources \cup Deriveds
ObjIds == {"o1", "o2", "o3"}
Callbacks == {"f", "g", "h"}
Hooks == {"k1", "k2"}
Vals == 0 .. MaxVal
\* Two values, enough to tell an equal from an unequal write.
Bit == {0, 1}

VARIABLES
  wvalue,               \* Cell.wvalue of every cell
  effects,              \* Cell.effects of every cell: [effect, options] entries
  derivedCells,         \* Cell.derivedCells of every cell: weak references
  dstate,               \* a derived cell: "none" (not constructed), "live", "dead" (collected),
                        \* "failed" (its constructor threw: the program has no reference to it)
  heap,                 \* the contents of the objects stored in cells
  root,                 \* the registry of root.js
  activeComputedValues, \* the stack of derived cells being computed
  trace,                \* the callbacks the last call invoked, in order
  op,                   \* the last call
  signals,              \* the AbortSignals given to listen: aborted, abort listeners
  batchCalls,           \* the number of Cell.batch calls whose callback is running
  regOrder,             \* history: every cell's registered effects in registration order
  written               \* history: the source cells the last batch has stored a value in

vars == <<wvalue, effects, derivedCells, dstate, heap, root, activeComputedValues,
          trace, op, signals, batchCalls, regOrder, written>>

(***************************************************************************)
(* Options of the source cells (the second argument of Cell.source).       *)
(***************************************************************************)
CellOptions(c) ==
  [immutable |-> c \in {"im", "io"},
   shallowProxied |-> FALSE,
   equals |-> IF c = "e" THEN "parity" ELSE "undefined"]

IsDerivedCell(c) == c \in Deriveds

(***************************************************************************)
(* Values.  A number is itself; an object value is a reference to a heap   *)
(* object, either the raw object or the Proxy the cell made of it.         *)
(***************************************************************************)
ObjRef(id, proxied) == [obj |-> id, proxied |-> proxied]

InitialObject(c) == IF c = "o" THEN "o1" ELSE "o2"

\* SourceCell.proxy: an object is wrapped in a Proxy, a primitive is returned as is.
Proxy(c, value) ==
  IF c \in NumSources THEN value ELSE ObjRef(value.obj, TRUE)

\* The value the SourceCell constructor stores.
ConstructedValue(c, value) ==
  IF CellOptions(c).shallowProxied THEN value ELSE Proxy(c, value)

\* The equality test of SourceCell's value setter.
IsEqual(c, oldValue, value) ==
  IF CellOptions(c).equals = "parity"
    THEN oldValue % 2 = value % 2
    ELSE oldValue = value

(***************************************************************************)
(* The machine state the cascade works on: the variables plus the trace of *)
(* the call, the error it raised ("" when it returned) and the Map objects *)
(* that root.batchedEffects has referred to during the call (oldMaps; the  *)
(* Map it refers to now is the next one).  An error ends every loop.       *)
(***************************************************************************)
Machine ==
  [wvalue |-> wvalue, effects |-> effects, derivedCells |-> derivedCells,
   heap |-> heap, root |-> root, activeComputedValues |-> activeComputedValues,
   signals |-> signals, oldMaps |-> <<>>, trace |-> <<>>, err |-> ""]

NoEffect == [kind |-> "none", cb |-> "-", cell |-> "-", id |-> 0]

Log(m, type, eff, hook, cell, arg) ==
  [m EXCEPT !.trace = Append(@, [type |-> type, eff |-> eff, hook |-> hook,
                                 cell |-> cell, arg |-> arg])]

\* Cell.setValue
SetValue(m, c, value) == [m EXCEPT !.wvalue[c] = value]

(***************************************************************************)
(* Weak references: a reference to a collected derived cell derefs to      *)
(* undefined.                                                              *)
(***************************************************************************)
Deref(ref) == IF dstate[ref] = "dead" THEN "undefined" ELSE ref

\* A getter that registers the derived cell on top of the stack at every read.
RevaluedEveryRead(m, c) ==
  LET stack == m.activeComputedValues IN
  IF stack = <<>> THEN m
  ELSE [m EXCEPT !.derivedCells[c] = Append(@, stack[Len(stack)])]

\* The getter Cell.revalued: registers the derived cell on top of the stack.
Revalued(m, c) ==
  LET stack == m.activeComputedValues IN
  IF stack = <<>> THEN m
  ELSE LET currentlyComputedValue == stack[Len(stack)]
           isAlreadySubscribed ==
             \E i \in 1 .. Len(m.derivedCells[c]) :
               Deref(m.derivedCells[c][i]) = currentlyComputedValue
       IN IF isAlreadySubscribed THEN m
          ELSE [m EXCEPT !.derivedCells[c] = Append(@, currentlyComputedValue)]

(***************************************************************************)
(* The computation functions of the derived cells: the cells whose value   *)
(* getter the function calls, in order (a property read through a Proxy    *)
(* calls the getter once more), and the result.                            *)
(***************************************************************************)
Reads(d, m) ==
  CASE d = "d1" -> <<"a", "e">>
    [] d = "d2" -> IF m.wvalue["a"] = 0 THEN <<"a", "im">> ELSE <<"a", "b">>
    [] d = "d3" -> <<"d1", "d2">>
    [] d = "d4" -> IF m.wvalue["o"].proxied THEN <<"o", "o", "o">> ELSE <<"o">>
    [] d = "d5" -> IF m.wvalue["io"].proxied THEN <<"io", "io">> ELSE <<"io">>
    [] d = "d6" -> <<"b">>

Result(d, m) ==
  CASE d = "d1" -> m.wvalue["a"] + m.wvalue["e"]
    [] d = "d2" -> IF m.wvalue["a"] = 0 THEN m.wvalue["im"] ELSE m.wvalue["b"]
    [] d = "d3" -> m.wvalue["d1"] + m.wvalue["d2"]
    [] d = "d4" -> m.heap[m.wvalue["o"].obj].q
    [] d = "d5" -> m.heap[m.wvalue["io"].obj].p
    [] d = "d6" -> m.wvalue["b"]

\* The computation function throws (after its reads).
Throws(d, m) == d = "d6" /\ m.wvalue["b"] = 1

\* The cells a computation function refers to (its closure).
Refs(d) ==
  CASE d = "d1" -> {"a", "e"}
    [] d = "d2" -> {"a", "b", "im"}
    [] d = "d3" -> {"d1", "d2"}
    [] d = "d4" -> {"o"}
    [] d = "d5" -> {"io"}
    [] d = "d6" -> {"b"}

RECURSIVE RunReads(_, _, _)
RunReads(m, reads, i) ==
  IF i > Len(reads) THEN m ELSE RunReads(Revalued(m, reads[i]), reads, i + 1)

Throw(m, error) == [m EXCEPT !.err = error]

\* this.setValue(this.computedFn())
Recompute(m, d) ==
  LET m1 == RunReads(m, Reads(d, m), 1)
  IN IF Throws(d, m)
       THEN Throw(Log(m1, "throw", NoEffect, "-", d, 0), "odd")
       ELSE Log(SetValue(m1, d, Result(d, m)), "recompute", NoEffect, "-", d, Result(d, m))

(***************************************************************************)
(* Effects.  An effect function is the callback itself, or the wrapper a   *)
(* listen call with once: true makes around it (a new function per call),  *)
(* or a recomputation closure of a derived cell queued by a batch.         *)
(***************************************************************************)
Fn(cb) == [kind |-> "fn", cb |-> cb, cell |-> "-", id |-> 0]
OnceWrapper(cb, c, id) == [kind |-> "once", cb |-> cb, cell |-> c, id |-> id]
RecomputeClosure(d) == [kind |-> "recompute", cb |-> "-", cell |-> d, id |-> 0]

\* Array.prototype.findIndex on the effect function; 0 for -1.
FindEffect(list, callback) ==
  IF \E i \in 1 .. Len(list) : list[i].effect = callback
    THEN CHOOSE i \in 1 .. Len(list) :
           /\ list[i].effect = callback
           /\ \A j \in 1 .. (i - 1) : list[j].effect # callback
    ELSE 0

\* Array.prototype.splice(index, 1)
Splice(list, index) ==
  [i \in 1 .. (Len(list) - 1) |-> IF i < index THEN list[i] ELSE list[i + 1]]

\* Cell.ignore
Ignore(m, c, callback) ==
  LET index == FindEffect(m.effects[c], callback)
  IN IF index = 0 THEN m ELSE [m EXCEPT !.effects[c] = Splice(@, index)]

\* A batch map that keeps every entry it is given.
BatchedSetAppend(m, key, args) ==
  [m EXCEPT !.root.batchedEffects = Append(@, [key |-> key, args |-> args])]

\* A batch map in which the recomputations of one derived cell share a key.
BatchedSetPerCell(m, key, args) ==
  LET map == m.root.batchedEffects
  IN IF \E i \in 1 .. Len(map) : map[i].key = key
       THEN [m EXCEPT !.root.batchedEffects =
               [i \in 1 .. Len(map) |->
                  IF map[i].key = key THEN [key |-> key, args |-> args] ELSE map[i]]]
       ELSE [m EXCEPT !.root.batchedEffects = Append(@, [key |-> key, args |-> args])]

\* Map.prototype.set on root.batchedEffects: a known key keeps its place.
BatchedSet(m, key, args) ==
  LET map == m.root.batchedEffects
  IN IF key.kind # "recompute" /\ \E i \in 1 .. Len(map) : map[i].key = key
       THEN [m EXCEPT !.root.batchedEffects =
               [i \in 1 .. Len(map) |->
                  IF map[i].key = key THEN [key |-> key, args |-> args] ELSE map[i]]]
       ELSE [m EXCEPT !.root.batchedEffects = Append(@, [key |-> key, args |-> args])]

(***************************************************************************)
(* Cell.update and DerivedCell.update.                                     *)
(***************************************************************************)
RECURSIVE CallEffect(_, _, _)

\* The loop over this.effects: the array is read by index while it may shrink.
RECURSIVE RunWatchers(_, _, _)
RunWatchers(m, c, i) ==
  IF i > Len(m.effects[c]) \/ m.err # "" THEN m
  ELSE LET watcher == m.effects[c][i].effect
       IN IF m.root.batchNestingLevel > 0
            THEN RunWatchers(BatchedSet(m, watcher, <<m.wvalue[c]>>), c, i + 1)
            ELSE RunWatchers(CallEffect(m, watcher, <<m.wvalue[c]>>), c, i + 1)

\* this.derivedCells without the dead references.
LiveRefs(list) ==
  LET keep == {i \in 1 .. Len(list) : Deref(list[i]) # "undefined"}
      nth(k) == CHOOSE i \in keep : Cardinality({j \in keep : j < i}) = k - 1
  IN [k \in 1 .. Cardinality(keep) |-> list[nth(k)]]

\* root.globalPostEffects / root.globalPreEffects without an effect function.
WithoutHook(list, effect) ==
  LET keep == {i \in 1 .. Len(list) : list[i].effect # effect}
      nth(k) == CHOOSE i \in keep : Cardinality({j \in keep : j < i}) = k - 1
  IN [k \in 1 .. Cardinality(keep) |-> list[nth(k)]]

\* The loop over root.globalPostEffects at the end of Cell.update.
RECURSIVE RunPostEffects(_, _, _, _)
RunPostEffects(m, c, hooks, i) ==
  IF i > Len(hooks) \/ m.err # "" THEN m
  ELSE LET options == hooks[i].options
           effect == hooks[i].effect
       IN IF options.ignoreDerivedCells /\ IsDerivedCell(c)
            THEN RunPostEffects(m, c, hooks, i + 1)
            ELSE LET m1 == Log(m, "post", NoEffect, effect, c, m.wvalue[c])
                     m2 == IF options.runOnce
                             THEN [m1 EXCEPT !.root.globalPostEffects =
                                               WithoutHook(@, effect)]
                             ELSE m1
                 IN RunPostEffects(m2, c, hooks, i + 1)

\* The loop over root.globalPreEffects in DerivedCell.update.
RECURSIVE RunPreEffectsDerived(_, _, _, _)
RunPreEffectsDerived(m, d, hooks, i) ==
  IF i > Len(hooks) THEN m
  ELSE IF hooks[i].options.ignoreDerivedCells
         THEN RunPreEffectsDerived(m, d, hooks, i + 1)
         ELSE RunPreEffectsDerived(
                Log(m, "pre", NoEffect, hooks[i].effect, d, m.wvalue[d]),
                d, hooks, i + 1)

RECURSIVE CellUpdate(_, _)
RECURSIVE DerivedUpdate(_, _)
RECURSIVE UpdateDependents(_, _, _)

\* The loop over this.derivedCells: dependent.deref()?.update()
UpdateDependents(m, computedDependents, i) ==
  IF i > Len(computedDependents) \/ m.err # "" THEN m
  ELSE IF Deref(computedDependents[i]) = "undefined"
         THEN UpdateDependents(m, computedDependents, i + 1)
         ELSE UpdateDependents(DerivedUpdate(m, computedDependents[i]),
                               computedDependents, i + 1)

\* An update that updates the dependents before it calls the cell's effects.
CellUpdateDependentsFirst(m, c) ==
  LET m1 == UpdateDependents(m, m.derivedCells[c], 1)
      m2 == RunWatchers(m1, c, 1)
      m3 == IF m2.err # "" THEN m2 ELSE [m2 EXCEPT !.derivedCells[c] = LiveRefs(@)]
  IN RunPostEffects(m3, c, m3.root.globalPostEffects, 1)

\* Cell.update
CellUpdate(m, c) ==
  LET m1 == RunWatchers(m, c, 1)
      m2 == UpdateDependents(m1, m1.derivedCells[c], 1)
      m3 == IF m2.err # "" THEN m2 ELSE [m2 EXCEPT !.derivedCells[c] = LiveRefs(@)]
  IN RunPostEffects(m3, c, m3.root.globalPostEffects, 1)

\* DerivedCell.update
DerivedUpdate(m, d) ==
  LET m1 == RunPreEffectsDerived(m, d, m.root.globalPreEffects, 1)
      m2 == IF m1.root.batchNestingLevel > 0
              THEN BatchedSet(m1, RecomputeClosure(d), <<>>)
              ELSE Recompute(m1, d)
  IN IF m2.err # "" THEN m2 ELSE CellUpdate(m2, d)

(***************************************************************************)
(* SourceCell: the value setter and the Proxy's set trap.                  *)
(***************************************************************************)
\* The loop over root.globalPreEffects in the value setter.
RECURSIVE RunPreEffectsSource(_, _, _, _)
RunPreEffectsSource(m, c, hooks, i) ==
  IF i > Len(hooks) THEN m
  ELSE LET m1 == Log(m, "pre", NoEffect, hooks[i].effect, c, m.wvalue[c])
           m2 == IF hooks[i].options.runOnce
                   THEN [m1 EXCEPT !.root.globalPreEffects =
                                     WithoutHook(@, hooks[i].effect)]
                   ELSE m1
       IN RunPreEffectsSource(m2, c, hooks, i + 1)

\* A variant of the setter that compares by identity only.
SetSourceValueIdentityOnly(m, c, value) ==
  IF CellOptions(c).immutable
    THEN Throw(m, "Cannot set the value of an immutable cell.")
  ELSE IF m.wvalue[c] = value THEN m
  ELSE LET m1 == RunPreEffectsSource(m, c, m.root.globalPreEffects, 1)
       IN CellUpdate(SetValue(m1, c, value), c)

\* A variant of the setter that tests equality before immutability.
SetSourceValueEqualFirst(m, c, value) ==
  IF IsEqual(c, m.wvalue[c], value) THEN m
  ELSE IF CellOptions(c).immutable
    THEN Throw(m, "Cannot set the value of an immutable cell.")
  ELSE LET m1 == RunPreEffectsSource(m, c, m.root.globalPreEffects, 1)
       IN CellUpdate(SetValue(m1, c, value), c)

\* set value(value)
SetSourceValue(m, c, value) ==
  IF CellOptions(c).immutable
    THEN Throw(m, "Cannot set the value of an immutable cell.")
  ELSE IF IsEqual(c, m.wvalue[c], value) THEN m
  ELSE LET m1 == RunPreEffectsSource(m, c, m.root.globalPreEffects, 1)
       IN CellUpdate(SetValue(m1, c, value), c)

\* A set trap that does not update when the property already has the value.
ProxySetTrapUnlessEqual(m, c, obj, prop, value) ==
  IF m.heap[obj][prop] = value THEN m
  ELSE CellUpdate([m EXCEPT !.heap[obj][prop] = value], c)

\* The set trap of the Proxy: Reflect.set(target, prop, value); this.update()
ProxySetTrap(m, c, obj, prop, value) ==
  CellUpdate([m EXCEPT !.heap[obj][prop] = value], c)

\* c.value.p = value (prop "p") or c.value.a.b = value (prop "q"): through the
\* Proxy when the stored value is one, on the raw object otherwise.
AssignThroughValue(m, c, prop, value) ==
  LET ref == Revalued(m, c).wvalue[c]
  IN IF ref.proxied
       THEN ProxySetTrap(Revalued(m, c), c, ref.obj, prop, value)
       ELSE [Revalued(m, c) EXCEPT !.heap[ref.obj][prop] = value]

(***************************************************************************)
(* DerivedCell: the value setter.                                          *)
(***************************************************************************)
\* A setter that stores the value and updates, as a source cell's does.
SetDerivedValueStores(m, d, value) == CellUpdate(SetValue(m, d, value), d)

\* DerivedCell set value
SetDerivedValue(m, d, value) == Throw(m, "Cannot set a derived Cell value.")

(***************************************************************************)
(* DerivedCell: the constructor.                                           *)
(***************************************************************************)
Push(stack, d) == Append(stack, d)
Pop(stack) == SubSeq(stack, 1, Len(stack) - 1)

NewDerivedCell(m, d) ==
  LET m1 == [m EXCEPT !.activeComputedValues = Push(@, d)]
      m2 == RunReads(m1, Reads(d, m1), 1)
      m3 == SetValue(m2, d, Result(d, m1))
  IN IF Throws(d, m1)
       THEN Throw(Log(m2, "throw", NoEffect, "-", d, 0), "odd")
       ELSE [m3 EXCEPT !.activeComputedValues = Pop(@)]

(***************************************************************************)
(* Cell.listen, Cell.isListeningTo, Cell.stopListeningTo.                  *)
(***************************************************************************)
\* No option given; a name or a signal of "" is none.
NoOptions == [once |-> FALSE, name |-> "", priority |-> {}, signal |-> ""]

\* options?.priority ?? 0
Priority(entry) ==
  IF entry.options.priority = {} THEN 0 ELSE CHOOSE p \in entry.options.priority : TRUE

\* A comparator that sorts by ascending priority.
CompareAscending(x, y) ==
  IF Priority(x) = Priority(y) THEN 0
  ELSE IF Priority(x) < Priority(y) THEN -1 ELSE 1

\* The comparator of this.effects.sort.
Compare(x, y) ==
  IF Priority(x) = Priority(y) THEN 0
  ELSE IF Priority(x) < Priority(y) THEN 1 ELSE -1

\* Array.prototype.sort is stable: an entry goes before the first one that the
\* comparator puts after it.
RECURSIVE InsertSorted(_, _)
InsertSorted(sorted, x) ==
  IF sorted = <<>> THEN <<x>>
  ELSE IF Compare(Head(sorted), x) <= 0
         THEN <<Head(sorted)>> \o InsertSorted(Tail(sorted), x)
         ELSE <<x>> \o sorted

RECURSIVE SortEffects(_)
SortEffects(list) ==
  IF list = <<>> THEN <<>>
  ELSE InsertSorted(SortEffects(SubSeq(list, 1, Len(list) - 1)), list[Len(list)])

\* A test that looks at the first entry only.
IsListeningToFirst(m, c, name) ==
  m.effects[c] # <<>> /\ m.effects[c][1].options.name = name

\* Cell.isListeningTo
IsListeningTo(m, c, name) ==
  \E i \in 1 .. Len(m.effects[c]) : m.effects[c][i].options.name = name

\* The once wrappers of callback on c that the list of c or the batch map
\* still refers to.
UsedWrapperIds(m, c, callback) ==
  LET IsWrapper(eff) == eff.kind = "once" /\ eff.cb = callback /\ eff.cell = c
      listed == {m.effects[c][i].effect : i \in 1 .. Len(m.effects[c])}
      batched == {m.root.batchedEffects[i].key : i \in 1 .. Len(m.root.batchedEffects)}
  IN {eff.id : eff \in {x \in listed \cup batched : IsWrapper(x)}}

\* A new function object: an identity nothing refers to.
FreshWrapperId(m, c, callback) ==
  CHOOSE k \in 1 .. (Cardinality(UsedWrapperIds(m, c, callback)) + 1) :
    /\ k \notin UsedWrapperIds(m, c, callback)
    /\ \A j \in 1 .. (k - 1) : j \in UsedWrapperIds(m, c, callback)

\* Cell.listen.  The abort listener calls this.ignore(effect), effect being
\* the wrapper when once is set and the callback otherwise.
Listen(m, c, callback, options) ==
  LET effect == IF options.once
                  THEN OnceWrapper(callback, c, FreshWrapperId(m, c, callback))
                  ELSE Fn(callback)
      m1 == IF options.signal = "" THEN m
            ELSE [m EXCEPT !.signals[options.signal].listeners =
                             Append(@, [cell |-> c, effect |-> effect])]
  IN IF options.signal # "" /\ m.signals[options.signal].aborted THEN m
     ELSE IF options.name # "" /\ IsListeningTo(m, c, options.name)
       THEN Throw(m1, "An effect with the name is already listening to this cell.")
     ELSE IF \E i \in 1 .. Len(m.effects[c]) : m.effects[c][i].effect = Fn(callback)
       THEN Throw(m1, "This effect is already listening to this cell.")
     ELSE [m1 EXCEPT !.effects[c] =
             SortEffects(Append(@, [effect |-> effect, options |-> options]))]

\* AbortSignal: the abort event calls the listeners in the order they were added.
RECURSIVE RunAbortListeners(_, _, _)
RunAbortListeners(m, listeners, i) ==
  IF i > Len(listeners) THEN m
  ELSE RunAbortListeners(Ignore(m, listeners[i].cell, listeners[i].effect),
                         listeners, i + 1)

AbortSignal(m, s) ==
  RunAbortListeners([m EXCEPT !.signals[s].aborted = TRUE], m.signals[s].listeners, 1)

StopListeningToName(m, c, name) ==
  LET list == m.effects[c]
      found == {i \in 1 .. Len(list) : list[i].options.name = name}
  IN IF found = {} THEN m
     ELSE [m EXCEPT !.effects[c] =
             Splice(@, CHOOSE i \in found : \A j \in found : i <= j)]

(***************************************************************************)
(* Global effects and batching.                                            *)
(***************************************************************************)
\* Cell.beforeUpdate
BeforeUpdateHook(m, effect, options) ==
  [m EXCEPT !.root.globalPreEffects = Append(@, [options |-> options, effect |-> effect])]

\* Cell.afterUpdate
AfterUpdateHook(m, effect, options) ==
  [m EXCEPT !.root.globalPostEffects = Append(@, [options |-> options, effect |-> effect])]

\* Cell.removeGlobalEffect
RemoveGlobalEffectHook(m, effect) ==
  [m EXCEPT !.root.globalPreEffects = WithoutHook(@, effect)]

\* The Map object root.batchedEffects refers to, and the entries of a Map.
CurrentMap(m) == Len(m.oldMaps) + 1
Entries(m, map) == IF map = CurrentMap(m) THEN m.root.batchedEffects ELSE m.oldMaps[map]

\* The loop over root.batchedEffects at the end of the outermost Cell.batch:
\* the iterator reads the Map object it started on, entry by entry, as the
\* object is at that moment.
RECURSIVE RunBatched(_, _, _)
RunBatched(m, map, i) ==
  IF i > Len(Entries(m, map)) \/ m.err # "" THEN m
  ELSE RunBatched(CallEffect(m, Entries(m, map)[i].key, Entries(m, map)[i].args),
                  map, i + 1)

\* Cell.batch up to the call of the callback.
BatchEnter(m) == [m EXCEPT !.root.batchNestingLevel = @ + 1]

\* Cell.batch after the callback returned: root.batchedEffects = new Map()
\* after the loop.
Drain(m) ==
  LET m1 == RunBatched(m, CurrentMap(m), 1)
  IN IF m1.err # "" THEN m1
     ELSE [m1 EXCEPT !.oldMaps = Append(@, m1.root.batchedEffects),
                     !.root.batchedEffects = <<>>]

\* A batch that drains the pending calls when any call ends, nested or not.
BatchLeaveEveryLevel(m) == Drain([m EXCEPT !.root.batchNestingLevel = @ - 1])

BatchLeave(m) ==
  LET m1 == [m EXCEPT !.root.batchNestingLevel = @ - 1]
  IN IF m1.root.batchNestingLevel = 0 THEN Drain(m1) ELSE m1

\* The callback r: (v) => { if (b.value === 0) Cell.batch(() => { b.value = 1; }); }
Reentrant == "r"

CallReentrant(m) ==
  LET m1 == Revalued(m, "b")
  IN IF m1.wvalue["b"] # 0 THEN m1
     ELSE LET m2 == SetSourceValue(BatchEnter(m1), "b", 1)
          IN IF m2.err # "" THEN m2 ELSE BatchLeave(m2)

\* A once wrapper that calls the callback and stays listed.
CallEffectKeepsOnce(m, eff, args) ==
  CASE eff.kind = "fn" /\ eff.cb # Reentrant ->
         Log(m, "listener", eff, "-", "-", args[1])
    [] eff.kind = "fn" /\ eff.cb = Reentrant ->
         CallReentrant(Log(m, "listener", eff, "-", "-", args[1]))
    [] eff.kind = "once" ->
         Log(m, "listener", eff, "-", eff.cell, m.wvalue[eff.cell])
    [] eff.kind = "recompute" ->
         Recompute(m, eff.cell)

\* A call of an effect function with the arguments args.
CallEffect(m, eff, args) ==
  CASE eff.kind = "fn" /\ eff.cb # Reentrant ->
         Log(m, "listener", eff, "-", "-", args[1])
    [] eff.kind = "fn" /\ eff.cb = Reentrant ->
         CallReentrant(Log(m, "listener", eff, "-", "-", args[1]))
    [] eff.kind = "once" ->
         Ignore(Log(m, "listener", eff, "-", eff.cell, m.wvalue[eff.cell]),
                eff.cell, eff)
    [] eff.kind = "recompute" ->
         Recompute(m, eff.cell)

(***************************************************************************)
(* The initial state: the source cells constructed, no derived cell yet.   *)
(***************************************************************************)
RootInit ==
  [batchNestingLevel |-> 0, batchedEffects |-> <<>>,
   globalPreEffects |-> <<>>, globalPostEffects |-> <<>>]

Signals == {"s1"}

NoOp == [name |-> "init", cell |-> "-", cb |-> "-", options |-> NoOptions,
         prop |-> "-", val |-> 0, equal |-> FALSE, err |-> ""]

Init ==
  /\ wvalue = [c \in Cells |->
                 IF c \in ObjSources
                   THEN ConstructedValue(c, ObjRef(InitialObject(c), FALSE))
                   ELSE 0]
  /\ effects = [c \in Cells |-> <<>>]
  /\ derivedCells = [c \in Cells |-> <<>>]
  /\ dstate = [d \in Deriveds |-> "none"]
  /\ heap = [id \in ObjIds |-> [p |-> 0, q |-> 0]]
  /\ root = RootInit
  /\ activeComputedValues = <<>>
  /\ trace = <<>>
  /\ op = NoOp
  /\ signals = [s \in Signals |-> [aborted |-> FALSE, listeners |-> <<>>]]
  /\ batchCalls = 0
  /\ regOrder = [c \in Cells |-> <<>>]
  /\ written = {}

(***************************************************************************)
(* The calls.  Step commits the machine state a call ends in.              *)
(***************************************************************************)
\* History: the effects still registered, in registration order, then the new one.
NextRegOrder(old, list) ==
  LET now == {list[i].effect : i \in 1 .. Len(list)}
      kept == SelectSeq(old, LAMBDA e : e \in now)
      had == {old[i] : i \in 1 .. Len(old)}
      new == now \ had
  IN IF new = {} THEN kept ELSE Append(kept, CHOOSE e \in new : TRUE)

Step(r, o, ds, wr) ==
  /\ Len(r.root.batchedEffects) <= MaxBatched
  /\ wvalue' = r.wvalue
  /\ effects' = r.effects
  /\ derivedCells' = r.derivedCells
  /\ heap' = r.heap
  /\ root' = r.root
  /\ activeComputedValues' = r.activeComputedValues
  /\ trace' = r.trace
  /\ op' = [o EXCEPT !.err = r.err]
  /\ dstate' = ds
  /\ written' = wr
  /\ signals' = r.signals
  /\ batchCalls' = CASE o.name = "batchBegin" -> batchCalls + 1
                      [] o.name \in {"batchEnd", "batchThrow"} -> batchCalls - 1
                      [] OTHER -> batchCalls
  /\ regOrder' = [c \in Cells |-> NextRegOrder(regOrder[c], r.effects[c])]

Exists(c) == IF c \in Sources THEN TRUE ELSE dstate[c] = "live"

\* The values a program writes to a cell: numbers, or an object reference (the
\* value read from the cell, the raw initial object, another raw object).
WriteValues(c) ==
  IF c \in NumSources THEN Vals
  ELSE {wvalue[c], ObjRef(InitialObject(c), FALSE), ObjRef("o3", FALSE)}

\* c.value = value
Write(c, value) ==
  /\ c \in Sources
  /\ LET r == SetSourceValue(Machine, c, value)
         stored == ~CellOptions(c).immutable /\ ~IsEqual(c, wvalue[c], value)
     IN Step(r, [NoOp EXCEPT !.name = "write", !.cell = c, !.val = value,
                          !.equal = IsEqual(c, wvalue[c], value)],
          dstate,
          IF stored /\ root.batchNestingLevel > 0 THEN written \cup {c} ELSE written)

\* c.value.p = value, c.value.a.b = value
Assign(c, prop, value) ==
  /\ c \in ObjSources
  /\ LET r == AssignThroughValue(Machine, c, prop, value)
     IN Step(r, [NoOp EXCEPT !.name = "assign", !.cell = c, !.prop = prop, !.val = value,
                          !.equal = (heap[wvalue[c].obj][prop] = value)],
          dstate, written)

\* d = Cell.derived(computedFn)
NewDerived(d) ==
  /\ dstate[d] = "none"
  /\ \A c \in Refs(d) : Exists(c)
  /\ LET r == NewDerivedCell(Machine, d)
     IN Step(r, [NoOp EXCEPT !.name = "derived", !.cell = d],
             [dstate EXCEPT ![d] = IF r.err = "" THEN "live" ELSE "failed"], written)

\* d.value = value
WriteToDerived(d, value) ==
  /\ d \in Deriveds
  /\ Exists(d)
  /\ Step(SetDerivedValue(Machine, d, value),
          [NoOp EXCEPT !.name = "writeDerived", !.cell = d, !.val = value], dstate, written)

\* The program drops its last reference to d and the collector frees it.
Collect(d) ==
  /\ dstate[d] = "live"
  /\ \A e \in Deriveds : dstate[e] = "live" => d \notin Refs(e)
  /\ Step(Machine, [NoOp EXCEPT !.name = "collect", !.cell = d],
          [dstate EXCEPT ![d] = "dead"], written)

\* c.listen(callback, options)
ListenTo(c, callback, options) ==
  /\ Exists(c)
  /\ Len(effects[c]) < MaxEffects
  /\ options.signal # "" => Len(signals[options.signal].listeners) < MaxEffects
  /\ Step(Listen(Machine, c, callback, options),
          [NoOp EXCEPT !.name = "listen", !.cell = c, !.cb = callback,
                       !.options = options], dstate, written)

\* c.ignore(callback)
IgnoreCallback(c, callback) ==
  /\ Exists(c)
  /\ Step(Ignore(Machine, c, Fn(callback)),
          [NoOp EXCEPT !.name = "ignore", !.cell = c, !.cb = callback], dstate, written)

\* controller.abort(), controller being the AbortController of the signal s
Abort(s) ==
  /\ ~signals[s].aborted
  /\ Step(AbortSignal(Machine, s),
          [NoOp EXCEPT !.name = "abort", !.options.signal = s], dstate, written)

\* The disposer listen returned for the i-th entry of c.effects: c.ignore(effect)
Dispose(c, i) ==
  /\ i \in 1 .. Len(effects[c])
  /\ Step(Ignore(Machine, c, effects[c][i].effect),
          [NoOp EXCEPT !.name = "dispose", !.cell = c],
          dstate, written)

\* c.stopListeningTo(name)
StopListeningTo(c, name) ==
  /\ Exists(c)
  /\ Step(StopListeningToName(Machine, c, name),
          [NoOp EXCEPT !.name = "stopListeningTo", !.cell = c], dstate, written)

\* Cell.beforeUpdate(effect, options)
BeforeUpdate(effect, options) ==
  /\ Len(root.globalPreEffects) < MaxHooks
  /\ Step(BeforeUpdateHook(Machine, effect, options),
          [NoOp EXCEPT !.name = "beforeUpdate"], dstate, written)

\* Cell.afterUpdate(effect, options)
AfterUpdate(effect, options) ==
  /\ Len(root.globalPostEffects) < MaxHooks
  /\ Step(AfterUpdateHook(Machine, effect, options),
          [NoOp EXCEPT !.name = "afterUpdate"], dstate, written)

\* Cell.removeGlobalEffect(effect)
RemoveGlobalEffect(effect) ==
  /\ effect \in Hooks
  /\ Step(RemoveGlobalEffectHook(Machine, effect),
       [NoOp EXCEPT !.name = "removeGlobalEffect", !.cb = effect], dstate, written)

\* Cell.batch(callback): the call, up to the callback.
BatchBegin ==
  /\ root.batchNestingLevel < MaxNesting
  /\ batchCalls < MaxNesting
  /\ Step(BatchEnter(Machine), [NoOp EXCEPT !.name = "batchBegin"], dstate,
          IF root.batchNestingLevel = 0 THEN {} ELSE written)

\* Cell.batch(callback): the callback returned.
BatchEnd ==
  /\ batchCalls > 0
  /\ Step(BatchLeave(Machine), [NoOp EXCEPT !.name = "batchEnd"], dstate, written)

\* Cell.batch(callback): the callback threw, and the caller caught the error.
BatchThrow ==
  /\ batchCalls > 0
  /\ Step(Throw(Machine, "thrown"), [NoOp EXCEPT !.name = "batchThrow"], dstate, written)

\* c.value, read outside any computation function.
Read(c) ==
  /\ Exists(c)
  /\ Step(Revalued(Machine, c), [NoOp EXCEPT !.name = "read", !.cell = c], dstate, written)

HookOptions == [runOnce : BOOLEAN, ignoreDerivedCells : BOOLEAN]

(***************************************************************************)
(* Derived cells over number cells: chains, a diamond, a conditional read. *)
(***************************************************************************)
WriteDerived == \E c \in {"a", "b"}, v \in Vals : Write(c, v)
ConstructDerived == \E d \in {"d1", "d2", "d3"} : NewDerived(d)
CollectDerived == \E d \in {"d1", "d2", "d3"} : Collect(d)

NextDerived == WriteDerived \/ ConstructDerived \/ CollectDerived

SpecDerived == Init /\ [][NextDerived]_vars

(***************************************************************************)
(* Properties of derived cells.                                            *)
(***************************************************************************)
Range(seq) == {seq[i] : i \in 1 .. Len(seq)}
LiveDeriveds == {d \in Deriveds : dstate[d] = "live"}
Recomputed(d) == \E i \in 1 .. Len(trace) : trace[i].type = "recompute" /\ trace[i].cell = d

\* C2: between calls, outside a batch, every derived cell holds the result of
\* its computation function on the current values of the cells it reads.
C2_DerivedConsistent ==
  root.batchNestingLevel = 0 =>
    \A d \in LiveDeriveds : wvalue[d] = Result(d, Machine)

\* C3: a derived cell is registered as a dependent of every cell its
\* computation function reads, also of a cell it first read in a recomputation.
C3_ReadsRegistered ==
  \A d \in LiveDeriveds :
    \A c \in Range(Reads(d, Machine)) : d \in Range(derivedCells[c])

\* C3, second half: a stored write to a cell recomputes every derived cell
\* whose computation function reads the cell.
C3_LaterWriteRecomputes ==
  [][(op'.name = "write" /\ ~op'.equal /\ op'.err = "" /\ root.batchNestingLevel = 0)
       => \A d \in LiveDeriveds :
            op'.cell \in Range(Reads(d, Machine)) => Recomputed(d)']_vars

(***************************************************************************)
(* Writes to number cells with effects, global effects, dependents and     *)
(* batches (not nested here).                                              *)
(***************************************************************************)
WriteNumber == \E c \in {"e", "im"}, v \in Vals : Write(c, v)
ConstructReader == \E d \in {"d1", "d2"} : NewDerived(d)
ListenNumber == \E c \in {"e", "im"} : ListenTo(c, "f", NoOptions)
HookBefore == BeforeUpdate("k1", [runOnce |-> FALSE, ignoreDerivedCells |-> FALSE])
HookAfter == AfterUpdate("k1", [runOnce |-> FALSE, ignoreDerivedCells |-> FALSE])
BatchOpen == root.batchNestingLevel = 0 /\ BatchBegin

NextWrite ==
  \/ WriteNumber
  \/ ConstructReader
  \/ ListenNumber
  \/ HookBefore
  \/ HookAfter
  \/ BatchOpen
  \/ BatchEnd

SpecWrite == Init /\ [][NextWrite]_vars

\* What a call leaves alone when it has no effect on the engine.
NothingHappens ==
  /\ trace' = <<>>
  /\ wvalue' = wvalue
  /\ heap' = heap
  /\ effects' = effects
  /\ derivedCells' = derivedCells
  /\ root' = root

\* C1: a write to a mutable source cell of a value equal to the current one (by
\* the cell's equals function, identity by default) invokes no global effect,
\* no effect of the cell and no recomputation, queues nothing in the batch map
\* and leaves the stored value as it is.
C1_EqualWriteIsNoOp ==
  [][(op'.name = "write" /\ op'.equal /\ ~CellOptions(op'.cell).immutable)
       => (NothingHappens /\ op'.err = "")]_vars

\* C1's case: an equal write of another number (same parity) to e, which has an
\* effect, a live dependent, and global effects of both kinds registered.
C1_Witness ==
  /\ op.name = "write" /\ op.cell = "e" /\ op.equal /\ op.val # wvalue["e"]
  /\ effects["e"] # <<>>
  /\ dstate["d1"] = "live"
  /\ root.globalPreEffects # <<>>
  /\ root.globalPostEffects # <<>>

\* C8: a write to an immutable source cell raises an error whatever the value,
\* changes neither the value nor the effects nor the global effects, and
\* invokes nothing.
C8_ImmutableWriteThrows ==
  [][(op'.name = "write" /\ CellOptions(op'.cell).immutable)
       => (NothingHappens /\ op'.err # "")]_vars

\* C8's case: a write of another value to im, which has an effect and a live
\* dependent, with global effects of both kinds registered.
C8_Witness ==
  /\ op.name = "write" /\ op.cell = "im" /\ op.err # "" /\ op.val # wvalue["im"]
  /\ effects["im"] # <<>>
  /\ dstate["d2"] = "live"
  /\ root.globalPreEffects # <<>>
  /\ root.globalPostEffects # <<>>

(***************************************************************************)
(* The effects of one cell: listen with once, priority and name, the       *)
(* removals, and unbatched writes.                                         *)
(***************************************************************************)
ListenOptions == [once : BOOLEAN, name : {""}, priority : {{}, {0}, {1}}, signal : {""}]

\* f with any options, g and h never once.
ListenAny == \E cb \in Callbacks, options \in ListenOptions :
  (cb # "f" => ~options.once) /\ ListenTo("a", cb, options)
IgnoreAny == \E cb \in Callbacks : IgnoreCallback("a", cb)
DisposeAny == \E i \in 1 .. MaxEffects : Dispose("a", i)
WriteListened == \E v \in Bit : Write("a", v)

NextListen == ListenAny \/ IgnoreAny \/ DisposeAny \/ WriteListened

SpecListen == Init /\ [][NextListen]_vars

\* The calls of an effect function in a trace.
Calls(tr, eff) == {i \in 1 .. Len(tr) : tr[i].type = "listener" /\ tr[i].eff = eff}
ListenerCalls(tr) == SelectSeq(tr, LAMBDA ev : ev.type = "listener")
Position(seq, x) == CHOOSE i \in 1 .. Len(seq) : seq[i] = x
EntryOf(list, eff) == list[CHOOSE i \in 1 .. Len(list) : list[i].effect = eff]
UnbatchedStoredWrite ==
  op'.name = "write" /\ ~op'.equal /\ op'.err = "" /\ root.batchNestingLevel = 0

\* C4: an unbatched write that stores a value invokes every effect that is in
\* the cell's list when the round starts exactly once, with the new value.
C4_EveryListenerOnce ==
  [][UnbatchedStoredWrite =>
       \A i \in 1 .. Len(effects[op'.cell]) :
         /\ Cardinality(Calls(trace', effects[op'.cell][i].effect)) = 1
         /\ \A k \in Calls(trace', effects[op'.cell][i].effect) :
              trace'[k].arg = op'.val]_vars

\* An entry comes before another one in the order C7 states: higher
\* priority first (no priority is 0), equal priorities in registration order.
Before(c, x, y) ==
  \/ Priority(x) > Priority(y)
  \/ /\ Priority(x) = Priority(y)
     /\ Position(regOrder[c], x.effect) < Position(regOrder[c], y.effect)

EffectsOrdered(c) ==
  \A i, j \in 1 .. Len(effects[c]) :
    i < j => Before(c, effects[c][i], effects[c][j])

\* C7: every cell's effects are listed by non-increasing priority, equal
\* priorities in registration order, after any listen and removal calls, and
\* an unbatched update calls them in that order.
C7_PriorityOrder ==
  /\ [](\A c \in Cells : EffectsOrdered(c))
  /\ [][UnbatchedStoredWrite =>
          LET calls == ListenerCalls(trace')
              list == effects[op'.cell]
          IN \A i, j \in 1 .. Len(calls) :
               i < j => Before(op'.cell, EntryOf(list, calls[i].eff),
                                         EntryOf(list, calls[j].eff))]_vars

\* C7's case: a write called three effects; the second has no priority and was
\* registered before the third, which has priority 0 and stands after it, and
\* the first, of priority 1, was registered last.
C7_Witness ==
  /\ op.name = "write" /\ Len(ListenerCalls(trace)) = 3
  /\ Len(effects["a"]) = 3
  /\ effects["a"][1].options.priority = {1}
  /\ effects["a"][2].options.priority = {}
  /\ effects["a"][3].options.priority = {0}
  /\ regOrder["a"][3] = effects["a"][1].effect
  /\ trace[1].eff = effects["a"][1].effect
  /\ trace[3].eff = effects["a"][3].effect

(***************************************************************************)
(* Batches, nested too, of writes to a and b, with effects registered      *)
(* before the batch on a, b and the derived cell d1.                       *)
(***************************************************************************)
\* f on a and b (on a with or without once), g on a, h on d1.
ListenOutside ==
  \E x \in {<<"a", "f">>, <<"a", "g">>, <<"b", "f">>, <<"d1", "h">>}, once \in BOOLEAN :
    /\ root.batchNestingLevel = 0
    /\ once => x = <<"a", "f">>
    /\ ListenTo(x[1], x[2], [NoOptions EXCEPT !.once = once])
ConstructOutside == root.batchNestingLevel = 0 /\ NewDerived("d1")
\* Any value to a, 0 or 1 to b.
WriteInside == \E c \in {"a", "b"}, v \in Vals :
  /\ root.batchNestingLevel > 0
  /\ c = "b" => v \in Bit
  /\ Write(c, v)

NextBatch ==
  \/ ListenOutside
  \/ ConstructOutside
  \/ BatchBegin
  \/ WriteInside
  \/ BatchEnd

SpecBatch == Init /\ [][NextBatch]_vars

OutermostBatchEnd == op'.name = "batchEnd" /\ root.batchNestingLevel = 1

\* The effect function is in the list of another cell too.
Shared(c, eff) ==
  \E x \in Cells \ {c} : \E i \in 1 .. Len(effects[x]) : effects[x][i].effect = eff

CalledOnceWith(tr, eff, value) ==
  /\ Cardinality(Calls(tr, eff)) = 1
  /\ \A k \in Calls(tr, eff) : tr[k].arg = value

\* C5 as stated: while a batch is open no effect is called, and the end of the
\* outermost batch calls every effect of every source cell the batch stored a
\* value in exactly once, with the last value written to that cell.
C5_EveryListenerOnceWithLast ==
  [][/\ root'.batchNestingLevel > 0 => ListenerCalls(trace') = <<>>
     /\ OutermostBatchEnd =>
          \A c \in written : \A i \in 1 .. Len(effects[c]) :
            CalledOnceWith(trace', effects[c][i].effect, wvalue[c])]_vars

\* C5, for effects registered on one cell only: while a batch is open no effect
\* is called, and the end of the outermost batch calls every effect that is
\* registered on a source cell the batch stored a value in, and on no other
\* cell, exactly once, with the last value written to that cell.
C5_UnsharedListenerOnceWithLast ==
  [][/\ root'.batchNestingLevel > 0 => ListenerCalls(trace') = <<>>
     /\ OutermostBatchEnd =>
          \A c \in written : \A i \in 1 .. Len(effects[c]) :
            ~Shared(c, effects[c][i].effect) =>
              CalledOnceWith(trace', effects[c][i].effect, wvalue[c])]_vars

\* C5's case: the outermost batch ended after it stored values in a and b; g,
\* registered on a only, was called with the value of a, which differs from
\* the value of b.
C5_Witness ==
  /\ op.name = "batchEnd" /\ root.batchNestingLevel = 0
  /\ written = {"a", "b"}
  /\ wvalue["a"] # wvalue["b"]
  /\ \E i \in 1 .. Len(effects["a"]) : effects["a"][i].effect = Fn("g")
  /\ ~Shared("a", Fn("g"))
  /\ CalledOnceWith(trace, Fn("g"), wvalue["a"])
  /\ effects["b"] # <<>>

\* C6: the end of the outermost batch calls every effect of a derived cell
\* that reads a cell the batch stored a value in (and is registered on no other
\* cell) with the value the derived cell computes from the final values.
C6_DerivedListenerFinalValue ==
  [][OutermostBatchEnd =>
       \A d \in LiveDeriveds :
         Range(Reads(d, Machine)) \cap written # {} =>
           \A i \in 1 .. Len(effects[d]) :
             ~Shared(d, effects[d][i].effect) =>
               /\ Calls(trace', effects[d][i].effect) # {}
               /\ \A k \in Calls(trace', effects[d][i].effect) :
                    trace'[k].arg = Result(d, Machine)']_vars

(***************************************************************************)
(* Object cells: assignments to properties through the value of o and of   *)
(* the immutable io, replacements of the value of o, with effects,         *)
(* dependents and global post effects.                                     *)
(***************************************************************************)
AssignAny == \E c \in ObjSources, prop \in {"p", "q"}, v \in Bit : Assign(c, prop, v)
ReplaceObject == \E v \in WriteValues("o") : Write("o", v)
ListenObject == \E c \in ObjSources : ListenTo(c, "f", NoOptions)
ConstructObjectReader == \E d \in {"d4", "d5"} : NewDerived(d)

NextProxy ==
  \/ AssignAny
  \/ ReplaceObject
  \/ ListenObject
  \/ ConstructObjectReader
  \/ HookAfter

SpecProxy == Init /\ [][NextProxy]_vars

\* C9: no call changes the contents of an immutable source cell: a write to
\* it, and an assignment to a property (nested or not) of the object its value
\* is, leave the value and the object as they are and invoke nothing.
C9_ImmutableNeverChanges ==
  [][(op'.name \in {"write", "assign"} /\ CellOptions(op'.cell).immutable)
       => NothingHappens]_vars

PostCalls(tr, c) == {i \in 1 .. Len(tr) : tr[i].type = "post" /\ tr[i].cell = c}

\* One round of Cell.update on c: every effect of c once with the value, every
\* live dependent recomputed, every global post effect once.
UpdateRound(c) ==
  /\ \A i \in 1 .. Len(effects[c]) :
       CalledOnceWith(trace', effects[c][i].effect, wvalue[c])
  /\ \A d \in LiveDeriveds : d \in Range(derivedCells[c]) => Recomputed(d)'
  /\ Cardinality(PostCalls(trace', c)) = Len(root.globalPostEffects)

C11_ReplacedValueUpdates ==
  [][(op'.name = "assign" /\ wvalue[op'.cell] # ConstructedValue(op'.cell,
                                 ObjRef(InitialObject(op'.cell), FALSE)))
       => /\ heap'[wvalue[op'.cell].obj][op'.prop] = op'.val
          /\ UpdateRound(op'.cell)]_vars

(***************************************************************************)
(* Writes to the value of derived cells that have effects, dependents and  *)
(* global effects, between writes to the source cell a.                    *)
(***************************************************************************)
WriteReadonly == \E d \in {"d1", "d3"}, v \in Vals : WriteToDerived(d, v)
ListenDerived == \E d \in {"d1", "d3"} : ListenTo(d, "f", NoOptions)
WriteBit == \E v \in Bit : Write("a", v)

NextReadonly ==
  \/ WriteReadonly
  \/ ConstructDerived
  \/ ListenDerived
  \/ WriteBit
  \/ HookBefore
  \/ HookAfter

SpecReadonly == Init /\ [][NextReadonly]_vars

\* C12: a write to the value of a derived cell raises an error, leaves every
\* value (the derived cell's too), effect list and global effect list as it
\* is and invokes nothing.
C12_DerivedWriteThrows ==
  [][op'.name = "writeDerived" => (NothingHappens /\ op'.err # "")]_vars

\* C12's case: a write of another value to d1, which has an effect and the
\* dependent d3, with global effects of both kinds registered.
C12_Witness ==
  /\ op.name = "writeDerived" /\ op.cell = "d1" /\ op.err # ""
  /\ op.val # wvalue["d1"] /\ wvalue["d1"] = Result("d1", Machine)
  /\ wvalue["a"] = 1
  /\ effects["d1"] # <<>>
  /\ "d3" \in Range(derivedCells["d1"])
  /\ root.globalPreEffects # <<>>
  /\ root.globalPostEffects # <<>>

(***************************************************************************)
(* Named effects of one cell: listen with a name, stopListeningTo, the     *)
(* disposers.                                                              *)
(***************************************************************************)
Names == {"n", "m"}
NamedOptions == [once : {FALSE}, name : Names \cup {""}, priority : {{}, {1}},
                 signal : {""}]

ListenNamed == \E cb \in Callbacks, options \in NamedOptions : ListenTo("a", cb, options)
StopAny == \E name \in Names : StopListeningTo("a", name)

NextNames == ListenNamed \/ StopAny \/ DisposeAny

SpecNames == Init /\ [][NextNames]_vars

NameError == "An effect with the name is already listening to this cell."

\* Some entry of the list of c carries the name.
NameInUse(list, name) == \E i \in 1 .. Len(list) : list[i].options.name = name

\* C13: a listen call with a name raises the name error exactly when an effect
\* in the cell's list has that name (so not after stopListeningTo or a
\* disposer removed it), and a listen call that raises leaves the list as it is.
C13_NameInUseThrows ==
  [][(op'.name = "listen" /\ op'.options.name # "")
       => /\ op'.err = NameError <=> NameInUse(effects[op'.cell], op'.options.name)
          /\ op'.err # "" => effects' = effects
          /\ op'.err = "" => NameInUse(effects'[op'.cell], op'.options.name)]_vars

\* C13's case: a listen call with the name of the second of two listed
\* effects, and a priority that would put the new entry first, raised.
C13_Witness ==
  /\ op.name = "listen" /\ op.err = NameError
  /\ op.options.priority = {1}
  /\ Len(effects["a"]) = 2
  /\ effects["a"][1].options.priority = {}
  /\ effects["a"][2].options.name = op.options.name
  /\ effects["a"][2].effect # Fn(op.cb)

\* C14: no callback occupies two entries of one cell's list.
C14_CallbackListedOnce ==
  \A c \in Cells : \A i, j \in 1 .. Len(effects[c]) :
    i # j => effects[c][i].effect.cb # effects[c][j].effect.cb

(***************************************************************************)
(* Effects registered outside batches with once on a, writes to a inside   *)
(* and outside batches, and the disposers.                                 *)
(***************************************************************************)
ListenOnce == \E cb \in {"f", "g"}, once \in BOOLEAN :
  /\ root.batchNestingLevel = 0
  /\ cb = "g" => ~once
  /\ ListenTo("a", cb, [NoOptions EXCEPT !.once = once])

NextOnce ==
  \/ ListenOnce
  \/ WriteBit
  \/ DisposeAny
  \/ BatchBegin
  \/ BatchEnd

SpecOnce == Init /\ [][NextOnce]_vars

\* The effect functions in the lists, and those in the batch map.
Listed(list) == UNION {{list[c][i].effect : i \in 1 .. Len(list[c])} : c \in Cells}
Batched(r) == {r.batchedEffects[i].key : i \in 1 .. Len(r.batchedEffects)}

\* C15: a call invokes a once wrapper at most once, and only one that is
\* listed or queued in the batch map; after the call that invoked it the
\* wrapper is in no list and not in the batch map, so no later call invokes it.
C15_OnceAtMostOnce ==
  [][/\ \A k \in 1 .. Len(trace') :
          (trace'[k].type = "listener" /\ trace'[k].eff.kind = "once") =>
            /\ trace'[k].eff \in Listed(effects) \cup Batched(root)
            /\ Cardinality(Calls(trace', trace'[k].eff)) = 1
            /\ trace'[k].eff \notin Listed(effects') \cup Batched(root')
     /\ \A w \in Listed(effects') \cup Batched(root') :
          w.kind = "once" =>
            \/ w \in Listed(effects) \cup Batched(root)
            \/ op'.name = "listen" /\ op'.options.once]_vars

\* C15's case: the end of a batch invoked a once wrapper of f on a, with the
\* value of a, while f itself and g stay listed on a.
C15_Witness ==
  /\ op.name = "batchEnd" /\ root.batchNestingLevel = 0
  /\ \E k \in 1 .. Len(trace) :
       /\ trace[k].type = "listener" /\ trace[k].eff.kind = "once"
       /\ trace[k].eff.cell = "a" /\ trace[k].arg = 1
  /\ Len(effects["a"]) = 2
  /\ \A i \in 1 .. 2 : effects["a"][i].effect.kind = "fn"

\* C16: a call invokes only effect functions that are in the list of a cell
\* when the call starts: one that was removed is not invoked again.
C16_RemovedNeverInvoked ==
  [][\A k \in 1 .. Len(trace') :
       trace'[k].type = "listener" => trace'[k].eff \in Listed(effects)]_vars

\* C17: after c.ignore(callback) no entry of the list of c calls the
\* callback, whatever options it was registered with, and an ignore call of a
\* callback that no entry calls changes nothing.
C17_IgnoreRemovesCallback ==
  [][op'.name = "ignore" =>
       /\ \A i \in 1 .. Len(effects'[op'.cell]) :
            effects'[op'.cell][i].effect.cb # op'.cb
       /\ (\A i \in 1 .. Len(effects[op'.cell]) :
             effects[op'.cell][i].effect.cb # op'.cb) => effects' = effects]_vars

(***************************************************************************)
(* Global effects: beforeUpdate, afterUpdate with and without runOnce,     *)
(* removeGlobalEffect, and updates by writes to a (read by d1) and by      *)
(* assignments through the value of o (read by d4).                        *)
(***************************************************************************)
RunOnceOptions == [runOnce : BOOLEAN, ignoreDerivedCells : {FALSE}]

HookBeforeAny == \E options \in RunOnceOptions : BeforeUpdate("k1", options)
HookAfterAny == \E options \in RunOnceOptions : AfterUpdate("k1", options)
RemoveHook == RemoveGlobalEffect("k1")
AssignNested == \E v \in Bit : Assign("o", "q", v)
ConstructHooked == \E d \in {"d1", "d4"} : NewDerived(d)

NextHooks ==
  \/ HookBeforeAny
  \/ HookAfterAny
  \/ RemoveHook
  \/ WriteBit
  \/ AssignNested
  \/ ConstructHooked

SpecHooks == Init /\ [][NextHooks]_vars

HookFns(list) == {list[i].effect : i \in 1 .. Len(list)}
HookCalls(tr, type, effect) ==
  {i \in 1 .. Len(tr) : tr[i].type = type /\ tr[i].hook = effect}

\* C18: after removeGlobalEffect(h), h is in neither list of global effects,
\* so no later update calls it.
C18_RemovedFromBothLists ==
  [][op'.name = "removeGlobalEffect" =>
       op'.cb \notin HookFns(root'.globalPreEffects) \cup HookFns(root'.globalPostEffects)]_vars

\* C19: a call invokes a global effect registered with runOnce at most once,
\* and the effect is not in its list after the call that invoked it.
RunOnceHolds(type, list, list2) ==
  \A i \in 1 .. Len(list) :
    (list[i].options.runOnce /\ HookCalls(trace', type, list[i].effect) # {}) =>
      /\ Cardinality(HookCalls(trace', type, list[i].effect)) = 1
      /\ list[i].effect \notin HookFns(list2)

C19_RunOnceAtMostOnce ==
  [][/\ RunOnceHolds("pre", root.globalPreEffects, root'.globalPreEffects)
     /\ RunOnceHolds("post", root.globalPostEffects, root'.globalPostEffects)]_vars

\* C20: a write that stores a value calls every effect registered with
\* beforeUpdate once for the written cell, with the value being written.
C20_PreEffectGetsNewValue ==
  [][(op'.name = "write" /\ ~op'.equal /\ op'.err = "") =>
       LET calls == {i \in 1 .. Len(trace') :
                       trace'[i].type = "pre" /\ trace'[i].cell = op'.cell}
       IN /\ Cardinality(calls) = Len(root.globalPreEffects)
          /\ \A i \in calls : trace'[i].arg = op'.val]_vars

(***************************************************************************)
(* Nested batches.                                                         *)
(***************************************************************************)
\* The calls a call made: of effects and of recomputation closures.
Drained(tr) == SelectSeq(tr, LAMBDA ev : ev.type \in {"listener", "recompute"})

\* C21: no effect is called while the batch depth is above zero; the end of
\* a nested batch calls nothing and leaves the pending calls as they are; the
\* end of the outermost batch brings the depth to zero, calls every pending
\* call and leaves the map of pending calls empty.
C21_NestedBatchesCompose ==
  /\ [](root.batchNestingLevel = 0 => root.batchedEffects = <<>>)
  /\ [][/\ root'.batchNestingLevel > 0 => Drained(trace') = <<>>
        /\ (op'.name = "batchEnd" /\ root.batchNestingLevel > 1) =>
             /\ root'.batchNestingLevel = root.batchNestingLevel - 1
             /\ root'.batchedEffects = root.batchedEffects
        /\ OutermostBatchEnd =>
             /\ root'.batchNestingLevel = 0
             /\ Len(Drained(trace')) = Len(root.batchedEffects)
             /\ root'.batchedEffects = <<>>]_vars

\* C21's case: a nested batch ended with calls pending and called nothing.
C21_Witness ==
  /\ op.name = "batchEnd" /\ root.batchNestingLevel = 1
  /\ Len(root.batchedEffects) >= 2
  /\ written = {"a", "b"}
  /\ trace = <<>>

(***************************************************************************)
(* Batches whose callback may throw, with effects on a and writes to a.    *)
(***************************************************************************)
ListenPlain == \E cb \in {"f", "g"} : ListenTo("a", cb, NoOptions)

NextThrow ==
  \/ ListenPlain
  \/ WriteBit
  \/ BatchBegin
  \/ BatchEnd
  \/ BatchThrow

SpecThrow == Init /\ [][NextThrow]_vars

\* C22: the batch depth is the number of Cell.batch calls in progress, also
\* after a call ended by an error of its callback; so with no batch in
\* progress a write that stores a value calls the effects of the cell.
C22_DepthPaired ==
  /\ [](root.batchNestingLevel = batchCalls)
  /\ [][(op'.name = "write" /\ ~op'.equal /\ batchCalls = 0) =>
          Len(ListenerCalls(trace')) = Len(effects[op'.cell])]_vars

(***************************************************************************)
(* A derived cell whose computation function may throw (d6), beside d1,    *)
(* with writes to a and b and reads of a outside any computation.          *)
(***************************************************************************)
WriteEither == \E c \in {"a", "b"}, v \in Bit : Write(c, v)
ConstructFailing == \E d \in {"d1", "d6"} : NewDerived(d)
ReadOutside == Read("a")

NextFailing ==
  \/ WriteEither
  \/ ConstructFailing
  \/ ReadOutside

SpecFailing == Init /\ [][NextFailing]_vars

\* C23: between calls the stack of derived cells being computed is empty,
\* also after a construction whose computation function threw; so a read
\* outside any computation function registers no dependent.
C23_StackPaired ==
  /\ [](activeComputedValues = <<>>)
  /\ [][op'.name = "read" => derivedCells' = derivedCells]_vars

(***************************************************************************)
(* Dependency edges: derived cells that read a cell once, twice (d3 reads  *)
(* a through d1 and d2) or several times through the Proxy (d4), their     *)
(* collection, and updates by writes and assignments.                      *)
(***************************************************************************)
ConstructEdges == \E d \in {"d1", "d2", "d3", "d4"} : NewDerived(d)
CollectEdges == \E d \in {"d1", "d2", "d3", "d4"} : Collect(d)

NextEdges ==
  \/ ConstructEdges
  \/ CollectEdges
  \/ WriteBit
  \/ AssignNested

SpecEdges == Init /\ [][NextEdges]_vars

References(c, d) == {i \in 1 .. Len(derivedCells[c]) : derivedCells[c][i] = d}
Recomputations(tr, d) ==
  {i \in 1 .. Len(tr) : tr[i].type = "recompute" /\ tr[i].cell = d}

\* C24: the list of dependents of a cell holds at most one reference to a
\* derived cell, however many times its computation function reads the cell;
\* so an update of a source cell updates each live dependent that reads
\* source cells only exactly once.
C24_EdgeRegisteredOnce ==
  /\ [](\A c \in Cells : \A d \in Deriveds : Cardinality(References(c, d)) <= 1)
  /\ [][(op'.name \in {"write", "assign"} /\ ~op'.equal) =>
          \A d \in LiveDeriveds :
            (d \in Range(derivedCells[op'.cell]) /\ Refs(d) \subseteq Sources) =>
              Cardinality(Recomputations(trace', d)) = 1]_vars

\* C24's case: d4, whose computation function calls the getter of o three
\* times, is the one dependent of o, and an assignment recomputed it once.
C24_Witness ==
  /\ op.name = "assign" /\ ~op.equal
  /\ Len(Reads("d4", Machine)) = 3
  /\ derivedCells["o"] = <<"d4">>
  /\ Cardinality(Recomputations(trace, "d4")) = 1

(***************************************************************************)
(* The order of one update round: f on a, g on d1, h on d3, global effects *)
(* of both kinds, and writes to a, which d1 and d2 read, d3 reading both.  *)
(***************************************************************************)
ListenRound == \E x \in {<<"a", "f">>, <<"d1", "g">>, <<"d3", "h">>} :
  ListenTo(x[1], x[2], NoOptions)

NextRound ==
  \/ ListenRound
  \/ ConstructDerived
  \/ WriteBit
  \/ HookBefore
  \/ HookAfter

SpecRound == Init /\ [][NextRound]_vars

\* The events of a trace that are calls of the effects of x, and those that
\* belong to the update of a derived cell.
OwnCalls(tr, x) ==
  {i \in 1 .. Len(tr) : /\ tr[i].type = "listener"
                        /\ tr[i].eff \in {effects[x][k].effect : k \in 1 .. Len(effects[x])}}
OfDerived(tr, ds) ==
  {i \in 1 .. Len(tr) :
     \/ tr[i].type \in {"pre", "recompute", "post"} /\ tr[i].cell \in ds
     \/ tr[i].type = "listener" /\ \E d \in ds : i \in OwnCalls(tr, d)}

\* The events between a recomputation of x and the first global post effect
\* called for x after it.
RoundOf(tr, x, i) ==
  LET posts == {j \in PostCalls(tr, x) : j > i}
  IN IF posts = {} THEN {}
     ELSE {j \in (i + 1) .. Len(tr) : \A p \in posts : j < p}

\* C25: an unbatched write that stores a value calls the effects of the cell,
\* then updates its live dependents, then calls the global post effects for
\* the cell, and these are the last calls of the write; within the update of
\* a derived cell the order is the same: its effects, then its dependents,
\* then the global post effects for it.
C25_RoundOrder ==
  [][UnbatchedStoredWrite =>
       LET c == op'.cell
           L == OwnCalls(trace', c)
           D == OfDerived(trace', Deriveds)
           P == PostCalls(trace', c)
       IN /\ Cardinality(L) = Len(effects[c])
          /\ Cardinality(P) = Len(root.globalPostEffects)
          /\ \A d \in LiveDeriveds : d \in Range(derivedCells[c]) => Recomputed(d)'
          /\ \A l \in L : \A d \in D : l < d
          /\ \A p \in P : \A i \in L \cup D : i < p
          /\ \A p \in P : \A i \in (p + 1) .. Len(trace') : i \in P
          /\ \A x \in LiveDeriveds : \A i \in Recomputations(trace', x) :
               LET W == RoundOf(trace', x, i)
                   own == W \cap OwnCalls(trace', x)
                   deps == W \cap OfDerived(trace', Deriveds \ {x})
               IN (\E p \in PostCalls(trace', x) : p > i) =>
                    /\ Cardinality(own) = Len(effects[x])
                    /\ \A l \in own : \A d \in deps : l < d]_vars

\* C25's case: a write to a called f, then g and h inside the updates of d1
\* and d3, and the global post effect for d3, d1, d2 and last for a.
C25_Witness ==
  /\ op.name = "write" /\ op.cell = "a" /\ op.err = ""
  /\ Calls(trace, Fn("f")) # {} /\ Calls(trace, Fn("g")) # {} /\ Calls(trace, Fn("h")) # {}
  /\ \A d \in {"d1", "d2", "d3"} : PostCalls(trace, d) # {}
  /\ trace[Len(trace)].type = "post" /\ trace[Len(trace)].cell = "a"
  /\ root.globalPreEffects # <<>>

(***************************************************************************)
(* Recomputations in batches: d1 and d2 read a, writes to a and b inside   *)
(* and outside batches.                                                    *)
(***************************************************************************)
NextRecompute ==
  \/ ConstructReader
  \/ WriteEither
  \/ BatchBegin
  \/ BatchEnd

SpecRecompute == Init /\ [][NextRecompute]_vars

\* The recomputations of d that the batch map holds.
Queued(r, d) ==
  {i \in 1 .. Len(r.batchedEffects) : r.batchedEffects[i].key = RecomputeClosure(d)}

\* C26: while a batch is open no computation function runs, and every update
\* that reaches a derived cell (a stored write to a cell it is a dependent of)
\* queues one more recomputation of it; the end of the outermost batch runs
\* the computation function of a derived cell once per queued recomputation,
\* and leaves the cell with the result of its function on the final values.
C26_RecomputationsNotDeduplicated ==
  [][/\ root'.batchNestingLevel > 0 =>
          \A d \in Deriveds : Recomputations(trace', d) = {}
     /\ (op'.name = "write" /\ ~op'.equal /\ root.batchNestingLevel > 0) =>
          \A d \in LiveDeriveds :
            Cardinality(Queued(root', d)) =
              Cardinality(Queued(root, d)) +
                (IF d \in Range(derivedCells[op'.cell]) THEN 1 ELSE 0)
     /\ OutermostBatchEnd =>
          \A d \in LiveDeriveds :
            /\ Cardinality(Recomputations(trace', d)) = Cardinality(Queued(root, d))
            /\ Queued(root, d) # {} =>
                 wvalue'[d] = Result(d, [wvalue |-> wvalue', heap |-> heap'])]_vars

\* C26's case: the end of a batch that wrote twice to a ran the computation
\* function of d1 twice.
C26_Witness ==
  /\ op.name = "batchEnd" /\ root.batchNestingLevel = 0
  /\ Cardinality(Recomputations(trace, "d1")) = 2
  /\ wvalue["d1"] = Result("d1", Machine)
  /\ wvalue["a"] = 1

(***************************************************************************)
(* Global pre effects and assignments through the Proxy.                   *)
(***************************************************************************)
PreCalls(tr, c) == {i \in 1 .. Len(tr) : tr[i].type = "pre" /\ tr[i].cell = c}

\* C27: an update of a source cell, started by a write that stores a value or
\* by an assignment to a property through the value, first calls every effect
\* registered with beforeUpdate for the cell.
C27_PreEffectsBeforeEveryRound ==
  [][(op'.name \in {"write", "assign"} /\ ~op'.equal /\ op'.err = "") =>
       /\ Cardinality(PreCalls(trace', op'.cell)) = Len(root.globalPreEffects)
       /\ \A i \in PreCalls(trace', op'.cell) :
            \A j \in 1 .. Len(trace') : j \notin PreCalls(trace', op'.cell) => i < j]_vars

(***************************************************************************)
(* An effect that calls Cell.batch: r on a writes 1 to b in a batch when b *)
(* holds 0; g on b; writes to a and b inside and outside batches.          *)
(***************************************************************************)
ListenReentrant == \E x \in {<<"a", Reentrant>>, <<"b", "g">>} :
  ListenTo(x[1], x[2], NoOptions)

NextReentrant ==
  \/ ListenReentrant
  \/ WriteEither
  \/ BatchBegin
  \/ BatchEnd

SpecReentrant == Init /\ [][NextReentrant]_vars

\* C28: the end of the outermost batch calls no effect more than once, also
\* when an effect it calls makes a batch of its own.
C28_DrainCallsOnce ==
  [][op'.name = "batchEnd" =>
       \A k \in 1 .. Len(trace') :
         trace'[k].type = "listener" => Cardinality(Calls(trace', trace'[k].eff)) = 1]_vars

(***************************************************************************)
(* Listen calls with an AbortSignal, with and without a name, and aborts.   *)
(***************************************************************************)
SignalOptions ==
  [once : {FALSE}, name : {"", "n"}, priority : {{}}, signal : Signals \cup {""}]

ListenSignal == \E cb \in {"f", "g"}, options \in SignalOptions : ListenTo("a", cb, options)
AbortAny == \E s \in Signals : Abort(s)

NextSignal ==
  \/ ListenSignal
  \/ AbortAny
  \/ DisposeAny

SpecSignal == Init /\ [][NextSignal]_vars

\* C29: a listen call that raises an error leaves the lists of effects as
\* they are, and an abort of a signal removes only entries that were
\* registered with that signal.
C29_FailedListenLeavesNothing ==
  [][/\ (op'.name = "listen" /\ op'.err # "") => effects' = effects
     /\ op'.name = "abort" =>
          \A c \in Cells : \A i \in 1 .. Len(effects[c]) :
            effects[c][i].options.signal # op'.options.signal =>
              effects[c][i] \in Range(effects'[c])]_vars

====
